---- MODULE Spec2Model ----
(***************************************************************************)
(* Model of edgar_report/pdf.py: the builtin PDF engine (SimplePdf,        *)
(* PageCanvas, the markup classifier, the pagination pass and the document *)
(* assembly of _build_simple_pdf) and the engine selector build_pdf.       *)
(*                                                                         *)
(* Python str and bytes values are TLA+ strings: Len is the number of      *)
(* characters (= bytes after the latin-1 encoding of build_stream), \o is  *)
(* concatenation and SubSeq(s, i, j) is the slice s[i-1:j].                *)
(***************************************************************************)
EXTENDS Integers, Sequences, FiniteSets, TLC

VARIABLES
    pc,                 \* position of the build_pdf call
    engine, headers, rows, analysis_text, report_year, report_label,
    comparison_tables,  \* the arguments of build_pdf
    pages, page,        \* list of PageCanvas.lines; page = index of the current canvas
    table_title, table_headers, table_rows,   \* arguments of the running render_table
    row_i, y_local,     \* loop position and cursor of render_table
    comp_i,             \* loop position over comparison_tables
    blocks, block_i, y, \* narrative pass: classified blocks, loop position, cursor
    wrapped, idx_line,  \* wrapped lines of the current block, position among them
    page_streams, objects, font_obj, content_obj_ids, page_obj_start,
    pages_obj_id, page_obj_ids, pages_obj, catalog_obj,   \* document assembly
    out,                \* result of SimplePdf.build
    file,               \* content of the file at output_path
    result              \* what build_pdf returned or raised

vars == <<pc, engine, headers, rows, analysis_text, report_year, report_label,
          comparison_tables, pages, page, table_title, table_headers, table_rows,
          row_i, y_local, comp_i, blocks, block_i, y, wrapped, idx_line,
          page_streams, objects, font_obj, content_obj_ids, page_obj_start,
          pages_obj_id, page_obj_ids, pages_obj, catalog_obj, out, file, result>>

-----------------------------------------------------------------------------
(* Strings *)

Char(s, i) == SubSeq(s, i, i)

\* The one character of the model outside latin-1: it stands for U+2022, the
\* bullet glyph of pdf.py line 178.
BulletGlyph == "@"

\* Stands for the backquote character (U+0060) of pdf.py line 65, which a TLA+
\* string cannot hold.
Backquote == "~"

\* Characters str.strip() removes and textwrap treats as whitespace.
Whitespace == {" ", "\t", "\n", "\r", "\f"}

\* Line boundaries of str.splitlines() among the characters of the model.
LineBreaks == {"\n", "\r", "\f"}

\* The recursive operators below divide their range by halves, so that the
\* depth of the evaluation is logarithmic in the length of the string.

Min(a, b) == IF a <= b THEN a ELSE b

Abs(a) == IF a < 0 THEN -a ELSE a

\* The operators below bind an argument they read more than once to a bound
\* variable (v \in {s}), so that it is evaluated a single time.

\* str.lstrip(chars)
lstrip_chars(s, chars) ==
    CHOOSE r \in { SubSeq(v, CHOOSE k \in 1..(Len(v) + 1) :
                                 /\ k = Len(v) + 1 \/ Char(v, k) \notin chars
                                 /\ \A m \in 1..(k - 1) : Char(v, m) \in chars,
                           Len(v)) : v \in {s} } : TRUE

\* str.rstrip(chars)
rstrip_chars(s, chars) ==
    CHOOSE r \in { SubSeq(v, 1, CHOOSE k \in 0..Len(v) :
                                    /\ k = 0 \/ Char(v, k) \notin chars
                                    /\ \A m \in (k + 1)..Len(v) : Char(v, m) \in chars)
                   : v \in {s} } : TRUE

\* str.strip()
strip(s) == rstrip_chars(lstrip_chars(s, Whitespace), Whitespace)

\* str.startswith(prefix)
startswith(s, prefix) ==
    Len(s) >= Len(prefix) /\ SubSeq(s, 1, Len(prefix)) = prefix

\* First and last position of the run of character c around position i.
same_run_start(s, i, c) ==
    CHOOSE p \in 1..i : /\ \A m \in p..i : Char(s, m) = c
                        /\ p = 1 \/ Char(s, p - 1) # c

same_run_end(s, i, c) ==
    CHOOSE e \in i..Len(s) : /\ \A m \in i..e : Char(s, m) = c
                             /\ e = Len(s) \/ Char(s, e + 1) # c

\* What str.replace(old, new) leaves of position i of s, for an old that is one
\* character c repeated k times (every pattern pdf.py replaces is): the matches
\* are taken from the left, without overlap, so a run of L characters c holds
\* L \div k matches, back to back from the start of the run.
replace_at(s, old, new, i) ==
    LET k == Len(old)
        c == Char(old, 1)
    IN  IF Char(s, i) # c THEN Char(s, i)
        ELSE IF k = 1 THEN new
        ELSE LET p == same_run_start(s, i, c)
                 e == same_run_end(s, i, c)
                 off == i - p
             IN  IF off < ((e - p + 1) \div k) * k
                 THEN (IF off % k = 0 THEN new ELSE "")
                 ELSE Char(s, i)

RECURSIVE replace_range(_, _, _, _, _)
replace_range(s, old, new, lo, hi) ==
    IF lo > hi THEN ""
    ELSE IF \A m \in lo..hi : Char(s, m) # Char(old, 1) THEN SubSeq(s, lo, hi)
    ELSE IF lo = hi THEN replace_at(s, old, new, lo)
    ELSE LET mid == (lo + hi) \div 2
         IN  replace_range(s, old, new, lo, mid) \o replace_range(s, old, new, mid + 1, hi)

\* str.replace(old, new)
replace(s, old, new) ==
    CHOOSE r \in { replace_range(v, old, new, 1, Len(v)) : v \in {s} } : TRUE

\* "sep".join(items[lo..hi])
RECURSIVE join_range(_, _, _, _)
join_range(sep, items, lo, hi) ==
    IF lo > hi THEN ""
    ELSE IF lo = hi THEN items[lo]
    ELSE LET mid == (lo + hi) \div 2
         IN  join_range(sep, items, lo, mid) \o sep \o join_range(sep, items, mid + 1, hi)

join(sep, items) ==
    CHOOSE r \in { join_range(sep, v, 1, Len(v)) : v \in {items} } : TRUE

\* Position i of s starts a line boundary of str.splitlines(): a line break
\* character, except the "\n" that completes a "\r\n" pair.
is_break(s, i) ==
    /\ Char(s, i) \in LineBreaks
    /\ ~(Char(s, i) = "\n" /\ i > 1 /\ Char(s, i - 1) = "\r")

break_width(s, i) ==
    IF Char(s, i) = "\r" /\ i < Len(s) /\ Char(s, i + 1) = "\n" THEN 2 ELSE 1

\* The lines of s[lo..hi], where lo starts a line and hi ends one (a boundary
\* or the end of s follows it).  A boundary at the very end of s opens no line.
RECURSIVE splitlines_range(_, _, _)
splitlines_range(s, lo, hi) ==
    IF lo > hi THEN (IF hi < Len(s) THEN <<"">> ELSE <<>>)
    ELSE LET mid == (lo + hi) \div 2
         IN  CHOOSE r \in {
                 IF breaks = {} THEN <<SubSeq(s, lo, hi)>>
                 ELSE CHOOSE q \in { splitlines_range(s, lo, b - 1)
                                       \o splitlines_range(s, b + break_width(s, b), hi) :
                                     b \in { CHOOSE b \in breaks :
                                               \A b2 \in breaks :
                                                   Abs(b - mid) <= Abs(b2 - mid) } } : TRUE
                 : breaks \in { {i \in lo..hi : is_break(s, i)} } } : TRUE

\* A split as str.split("\n") does it: the empty text has one (empty) line.
splitlines_one_for_empty(s) ==
    CHOOSE r \in { IF v = "" THEN <<"">> ELSE splitlines_range(v, 1, Len(v)) : v \in {s} } : TRUE

\* str.splitlines()
splitlines(s) ==
    CHOOSE r \in { splitlines_range(v, 1, Len(v)) : v \in {s} } : TRUE

-----------------------------------------------------------------------------
(* PageCanvas *)

\* An escape that handles the backslash last, after the parentheses.
_esc_backslash_last(s) == replace(replace(replace(s, "(", "\\("), ")", "\\)"), "\\", "\\\\")

\* _esc, pdf.py 55-56: three replacements, in this order.
_esc(s) == replace(replace(replace(s, "\\", "\\\\"), "(", "\\("), ")", "\\)")

\* PageCanvas.text, pdf.py 44-49: the five lines one call appends to canvas.lines.
text(lines, x, y_val, size, content) ==
    lines \o << "BT",
                "/F1 " \o ToString(size) \o " Tf",
                ToString(x) \o " " \o ToString(y_val) \o " Td",
                "(" \o _esc(content) \o ") Tj",
                "ET" >>

\* str.encode("latin-1", errors="replace"): a character outside latin-1 becomes "?".
encode_latin1(s) == replace(s, BulletGlyph, "?")

\* PageCanvas.build_stream, pdf.py 51-52.
build_stream(lines) == encode_latin1(join("\n", lines))

-----------------------------------------------------------------------------
(* Markup classifier *)

\* _clean_inline_markdown, pdf.py 64-67.
_clean_inline_markdown(s) ==
    LET cleaned == replace(replace(replace(s, "**", ""), "__", ""), Backquote, "")
    IN  strip(replace(cleaned, "***", ""))

\* One iteration of the loop of _parse_analysis_blocks, pdf.py 73-92.
classify_line(raw_line) ==
    LET stripped == strip(raw_line)
    IN  IF stripped = "" THEN <<"space", "">>
        ELSE IF startswith(stripped, "###")
             THEN <<"heading", _clean_inline_markdown(lstrip_chars(stripped, {"#", " "}))>>
        ELSE IF startswith(stripped, "##")
             THEN <<"heading", _clean_inline_markdown(lstrip_chars(stripped, {"#", " "}))>>
        ELSE IF startswith(stripped, "#")
             THEN <<"heading", _clean_inline_markdown(lstrip_chars(stripped, {"#", " "}))>>
        ELSE IF startswith(stripped, "- ") \/ startswith(stripped, "* ")
             THEN <<"bullet", _clean_inline_markdown(SubSeq(stripped, 3, Len(stripped)))>>
        ELSE <<"paragraph", _clean_inline_markdown(stripped)>>

\* A classifier that skips the blank lines instead of appending a spacer.
_parse_analysis_blocks_skip_blank(s) ==
    CHOOSE r \in { [i \in 1..Len(lines) |-> classify_line(lines[i])] :
                     lines \in { SelectSeq(splitlines(s), LAMBDA l : strip(l) # "") } } : TRUE

\* _parse_analysis_blocks, pdf.py 70-94.
_parse_analysis_blocks(s) ==
    CHOOSE r \in { [i \in 1..Len(lines) |-> classify_line(lines[i])] :
                     lines \in { splitlines(s) } } : TRUE

-----------------------------------------------------------------------------
(* textwrap.wrap(content, width) with the default options, as pdf.py calls  *)
(* it at lines 164, 173 and 182.  The chunk splitter is modelled for texts  *)
(* in which "-" occurs only as a word of its own (no hyphenated words, no   *)
(* em-dashes): there the chunks are the maximal runs of whitespace and of   *)
(* non-whitespace.                                                          *)

\* str.expandtabs(8): a tab fills up to the next multiple of 8 columns.
RECURSIVE expandtabs_from(_, _, _)
expandtabs_from(s, i, col) ==
    IF \A m \in i..Len(s) : Char(s, m) # "\t" THEN SubSeq(s, i, Len(s))
    ELSE IF Char(s, i) = "\t"
         THEN LET n == 8 - (col % 8)
              IN  SubSeq("        ", 1, n) \o expandtabs_from(s, i + 1, col + n)
    ELSE IF Char(s, i) \in {"\n", "\r"}
         THEN Char(s, i) \o expandtabs_from(s, i + 1, 0)
    ELSE Char(s, i) \o expandtabs_from(s, i + 1, col + 1)

\* str.translate(unicode_whitespace_trans): every whitespace character -> " ".
RECURSIVE translate_whitespace(_, _, _)
translate_whitespace(s, lo, hi) ==
    IF lo > hi THEN ""
    ELSE IF \A m \in lo..hi : Char(s, m) \notin (Whitespace \ {" "}) THEN SubSeq(s, lo, hi)
    ELSE IF lo = hi THEN " "
    ELSE LET mid == (lo + hi) \div 2
         IN  translate_whitespace(s, lo, mid) \o translate_whitespace(s, mid + 1, hi)

\* TextWrapper._munge_whitespace
_munge_whitespace(s) ==
    CHOOSE r \in { translate_whitespace(t, 1, Len(t)) :
                      t \in { expandtabs_from(v, 1, 0) : v \in {s} } } : TRUE

is_space(s, i) == Char(s, i) \in Whitespace

\* First and last position of the chunk (run of one kind) around position i.
chunk_start(s, i) ==
    CHOOSE p \in 1..i : /\ \A m \in p..i : is_space(s, m) <=> is_space(s, i)
                        /\ p = 1 \/ ~(is_space(s, p - 1) <=> is_space(s, i))

chunk_end(s, i) ==
    CHOOSE e \in i..Len(s) : /\ \A m \in i..e : is_space(s, m) <=> is_space(s, i)
                             /\ e = Len(s) \/ ~(is_space(s, e + 1) <=> is_space(s, i))

\* The chunks of s[lo..hi], where lo starts a chunk and hi ends one.
RECURSIVE split_range(_, _, _)
split_range(s, lo, hi) ==
    IF lo > hi THEN <<>>
    ELSE LET mid == (lo + hi) \div 2
         IN  CHOOSE r \in { split_range(s, lo, p - 1) \o <<SubSeq(s, p, e)>>
                               \o split_range(s, e + 1, hi) :
                            p \in {chunk_start(s, mid)}, e \in {chunk_end(s, mid)} } : TRUE

\* TextWrapper._split (wordsep_re), without empty chunks.
_split(s) == CHOOSE r \in { split_range(v, 1, Len(v)) : v \in {s} } : TRUE

RECURSIVE sum_len_range(_, _, _)
sum_len_range(chunks, lo, hi) ==
    IF lo > hi THEN 0
    ELSE IF lo = hi THEN Len(chunks[lo])
    ELSE LET mid == (lo + hi) \div 2
         IN  sum_len_range(chunks, lo, mid) + sum_len_range(chunks, mid + 1, hi)

sum_len(chunks) == sum_len_range(chunks, 1, Len(chunks))

\* Number of leading chunks the inner while loop of _wrap_chunks pops: it pops
\* while the running length stays within width.
fit_count(chunks, width) ==
    CHOOSE n \in 0..Len(chunks) :
        /\ sum_len_range(chunks, 1, n) <= width
        /\ n = Len(chunks) \/ sum_len_range(chunks, 1, n + 1) > width

\* chunk.rfind("-", 0, space_left): 0-based index, -1 when absent.
rfind_hyphen(chunk, endpos) ==
    LET found == {h \in 0..(Min(endpos, Len(chunk)) - 1) : Char(chunk, h + 1) = "-"}
    IN  IF found = {} THEN -1
        ELSE CHOOSE h \in found : \A h2 \in found : h2 <= h

\* TextWrapper._handle_long_word: the length of the piece cut off the chunk.
long_word_end(chunk, space_left) ==
    LET hyphen == rfind_hyphen(chunk, space_left)
    IN  IF Len(chunk) > space_left /\ hyphen > 0
           /\ \E k \in 1..hyphen : Char(chunk, k) # "-"
        THEN hyphen + 1
        ELSE space_left

RECURSIVE _wrap_chunks(_, _, _)

\* One iteration of the outer while loop of TextWrapper._wrap_chunks, from the
\* inner loop on: c1 are the chunks left once a leading whitespace chunk is
\* dropped, n the number of chunks the inner loop pops.
wrap_fitted(c1, n, width, lines) ==
      LET line0 == SubSeq(c1, 1, n)
          rest0 == SubSeq(c1, n + 1, Len(c1))
          long == rest0 # <<>> /\ Len(Head(rest0)) > width
          cut == IF long THEN long_word_end(Head(rest0), width - sum_len(line0)) ELSE 0
          line1 == IF long THEN Append(line0, SubSeq(Head(rest0), 1, cut)) ELSE line0
          rest1 == IF long
                   THEN <<SubSeq(Head(rest0), cut + 1, Len(Head(rest0)))>> \o Tail(rest0)
                   ELSE rest0
          line2 == IF line1 # <<>> /\ strip(line1[Len(line1)]) = ""
                   THEN SubSeq(line1, 1, Len(line1) - 1)
                   ELSE line1
      IN  _wrap_chunks(rest1, width,
                       IF line2 # <<>> THEN Append(lines, join("", line2)) ELSE lines)

\* One iteration of the outer while loop of TextWrapper._wrap_chunks.
wrap_one_line(chunks, width, lines) ==
    IF chunks = <<>> THEN lines
    ELSE CHOOSE r \in {
             CHOOSE q \in { wrap_fitted(c1, n, width, lines) :
                               n \in { fit_count(c1, width) } } : TRUE
             : c1 \in { IF strip(Head(chunks)) = "" /\ lines # <<>>
                        THEN Tail(chunks) ELSE chunks } } : TRUE

\* TextWrapper._wrap_chunks: chunks in reading order, lines collected so far.
_wrap_chunks(chunks, width, lines) ==
    CHOOSE r \in { wrap_one_line(cs, width, ls) : cs \in {chunks}, ls \in {lines} } : TRUE

wrap(content, width) == _wrap_chunks(_split(_munge_whitespace(content)), width, <<>>)

\* textwrap.wrap(content, width=w) or [content]
wrap_or_content(content, width) ==
    CHOOSE r \in { IF w = <<>> THEN <<content>> ELSE w : w \in {wrap(content, width)} } : TRUE

-----------------------------------------------------------------------------
(* SimplePdf *)

\* SimplePdf.add_object, pdf.py 11-13: the list after the append; the id
\* returned is its length.
add_object(objs, data) == Append(objs, data)

\* f"{pos:010d}"
pad10(pos) ==
    LET digits == ToString(pos)
    IN  IF Len(digits) < 10
        THEN SubSeq("0000000000", 1, 10 - Len(digits)) \o digits
        ELSE digits

\* A build loop that notes the offset after the object's header line is out.
RECURSIVE build_objects_late_offset(_, _, _, _)
build_objects_late_offset(objs, i, buf, xref) ==
    IF i > Len(objs) THEN [out |-> buf, xref |-> xref]
    ELSE build_objects_late_offset(objs, i + 1,
             buf \o ToString(i) \o " 0 obj\n" \o objs[i] \o "\nendobj\n",
             Append(xref, Len(buf \o ToString(i) \o " 0 obj\n")))

\* The loop of SimplePdf.build, pdf.py 18-22, from object i on: the buffer and
\* the offsets list when it ends.
RECURSIVE build_objects(_, _, _, _)
build_objects(objs, i, buf, xref) ==
    IF i > Len(objs) THEN [out |-> buf, xref |-> xref]
    ELSE build_objects(objs, i + 1,
                       buf \o ToString(i) \o " 0 obj\n" \o objs[i] \o "\nendobj\n",
                       Append(xref, Len(buf)))

\* SimplePdf.build, pdf.py 15-37.
build_document(objs, root_obj, done) ==
    LET xref_pos == Len(done.out)
        entries == [k \in 1..Len(objs) |-> pad10(done.xref[k + 1]) \o " 00000 n \n"]
    IN  done.out
        \o "xref\n0 " \o ToString(Len(objs) + 1) \o "\n"
        \o "0000000000 65535 f \n"
        \o join("", entries)
        \o "trailer\n"
        \o "<< /Size " \o ToString(Len(objs) + 1) \o " /Root " \o ToString(root_obj) \o " 0 R >>\n"
        \o "startxref\n"
        \o ToString(xref_pos) \o "\n"
        \o "%%EOF\n"

build(objs, root_obj) ==
    CHOOSE r \in { build_document(objs, root_obj, done) :
                      done \in { build_objects(objs, 1, "%PDF-1.4\n", <<0>>) } } : TRUE

-----------------------------------------------------------------------------
(* Layout helpers of _build_simple_pdf *)

\* pdf.py 114: col_widths = [150] + [42] * 12 + [50]
col_widths == <<150, 42, 42, 42, 42, 42, 42, 42, 42, 42, 42, 42, 42, 50>>

\* pdf.py 115-117: x_positions[i] for the 0-based column i.
RECURSIVE x_positions(_)
x_positions(i) == IF i = 0 THEN 30 ELSE x_positions(i - 1) + col_widths[i]

\* for i, cell in enumerate(cells): canvas.text(x_positions[i] + 2, y_val, size, cell)
RECURSIVE draw_cells(_, _, _, _, _)
draw_cells(lines, cells, y_val, size, i) ==
    IF i >= Len(cells) THEN lines
    ELSE draw_cells(text(lines, x_positions(i) + 2, y_val, size, cells[i + 1]),
                    cells, y_val, size, i + 1)

\* A render_table whose continuation and first pages carry the headers of the
\* primary table (what draw_table_header, pdf.py 119-122, draws).
draw_primary_header(lines, y_val) == draw_cells(lines, headers, y_val, 8, 0)

\* draw_dynamic_header, pdf.py 127-130: draws the headers render_table was given.
draw_dynamic_header(lines, y_val) == draw_cells(lines, table_headers, y_val, 8, 0)

\* pdf.py 144 and 148: the title of a table section.
section_title(year) ==
    ToString(year) \o " " \o report_label \o " Filing Volume by Agent"

\* pdf.py 164, 173, 182: wrap width; 169, 179, 187: font size; 170, 180, 188: step.
wrap_width(block_type) ==
    IF block_type = "heading" THEN 95 ELSE IF block_type = "bullet" THEN 120 ELSE 125

font_size(block_type) == IF block_type = "heading" THEN 11 ELSE 9

line_step(block_type) == IF block_type = "heading" THEN 12 ELSE 11

\* A page break that opens the page and leaves the cursor where it was.
narrative_break_keeps_cursor(pgs, pg, y_val) ==
    IF y_val < 30
    THEN [pages |-> Append(pgs, text(<<>>, 30, 580, 14, "Executive Analysis (continued)")),
          page |-> Len(pgs) + 1, y |-> y_val]
    ELSE [pages |-> pgs, page |-> pg, y |-> y_val]

\* pdf.py 158-161, 165-168, 174-177, 183-186: the page break of the narrative
\* pass, as the canvases, the current page and the cursor it leaves.
narrative_break(pgs, pg, y_val) ==
    IF y_val < 30
    THEN [pages |-> Append(pgs, text(<<>>, 30, 580, 14, "Executive Analysis (continued)")),
          page |-> Len(pgs) + 1, y |-> 560]
    ELSE [pages |-> pgs, page |-> pg, y |-> y_val]

-----------------------------------------------------------------------------
(* Inputs *)

MaxCols == 2          \* columns of the swept tables (the code lays out up to 14)
MaxRows == 85         \* rows of the primary table: two page breaks at 84
MaxComps == 2         \* comparison tables
MaxCompRows == 41     \* rows of a comparison table: one page break
MaxLines == 51        \* short narrative lines: a page break at the 50th
MaxBlank == 90        \* blank narrative lines: the cursor is below 30 after 89
MaxTextLen == 4       \* characters of a directly classified text
MaxObjects == 10      \* objects of a directly driven SimplePdf: a two-digit id

None == "None"

RECURSIVE rep(_, _)
rep(s, n) ==
    IF n <= 0 THEN "" ELSE IF n = 1 THEN s
    ELSE rep(s, n \div 2) \o rep(s, n - n \div 2)

MonthHeaders == <<"Filing Agent", "Jan", "Feb", "Mar", "Apr", "May", "Jun", "Jul",
                  "Aug", "Sep", "Oct", "Nov", "Dec", "Total">>

\* The headers and rows data.py hands over for one year: strings only, every
\* row as long as the headers, the last row the totals.
TableHeaders(year, ncols) ==
    [c \in 1..ncols |-> IF c = 1 THEN "Filing Agent (" \o ToString(year) \o ")"
                        ELSE MonthHeaders[c] \o " " \o ToString(year)]

TableRows(year, n, ncols) ==
    [r \in 1..n |->
        [c \in 1..ncols |-> IF c = 1
                            THEN (IF r = n THEN "Total" ELSE "Agent (" \o ToString(r) \o ")")
                            ELSE ToString((year % 100) + r + c)]]

ComparisonTable(year, n, ncols) ==
    <<year, TableHeaders(year, ncols), TableRows(year, n, ncols)>>

\* End-to-end scenario A of the specification.
ScenarioHeaders == MonthHeaders
ScenarioRows ==
    << <<"Agent A", "1", "0", "0", "0", "0", "0", "0", "0", "0", "0", "0", "0", "1">>,
       <<"Total", "1", "0", "0", "0", "0", "0", "0", "0", "0", "0", "0", "0", "1">> >>
ScenarioText == "## Summary\n- point one\n"

LongParagraph == rep("lorem ipsum dolor ", 20)
LongBullet == "- " \o rep("bullet (text) ", 25)
LongHeading == "## " \o rep("heading word ", 20)
LongWord == rep("x", 130)

Texts ==
    { "", "\n", "\n\n\n", " \n\t\n", ScenarioText,
      "# T\n\n## S\r\n### U\ntext **bold** and ~code~\n* star\n- dash\n#\n- **\n**\n- \nlast",
      LongParagraph, LongBullet, LongHeading, LongWord, "# " \o LongWord,
      "- " \o LongWord \o " tail",
      rep("\n", MaxBlank) }
    \cup { rep("- b\n", k) : k \in (MaxLines - 4)..MaxLines }
    \cup { rep("# h\n", k) : k \in (MaxLines - 13)..(MaxLines - 11) }
    \cup { rep("p\n", k) \o rep("\n", 4) : k \in (MaxLines - 3)..MaxLines }
    \cup { rep("\n", k) \o "tail" : k \in (MaxBlank - 2)..MaxBlank }
    \cup { rep("\n", k) \o "- tail\n\n\n" : k \in (MaxBlank - 2)..MaxBlank }
    \cup { rep("- b\n", k) \o LongBullet : k \in (MaxLines - 4)..MaxLines }
    \cup { rep("- b\n", k) \o LongHeading \o "\n" \o LongParagraph
             : k \in (MaxLines - 4)..MaxLines }

Engines == {"auto", "simple", "weasyprint", "rich", "AUTO", ""}

CompRowCounts == {0, 1, MaxCompRows}

\* The row counts of 0..MaxComps comparison tables.
ComparisonLists == UNION { [1..k -> CompRowCounts] : k \in 0..MaxComps }

Call(e, h, r, t, ct) ==
    [engine |-> e, headers |-> h, rows |-> r, analysis_text |-> t,
     comparison_tables |-> ct]

Year == 2026

\* The calls of build_pdf the model makes: a sweep of the primary table's size,
\* the comparison tables, the narrative texts, the engine values.
Calls ==
    { Call("simple", TableHeaders(Year, c), TableRows(Year, n, c), "", <<>>)
        : n \in 0..MaxRows, c \in 1..MaxCols }
    \cup
    { Call("simple", TableHeaders(Year, MaxCols), TableRows(Year, n, MaxCols), "note",
           [k \in DOMAIN l |-> ComparisonTable(Year - k, l[k], 1 + (k % MaxCols))])
        : n \in {0, 2, MaxCompRows}, l \in ComparisonLists }
    \cup
    { Call("simple", TableHeaders(Year, MaxCols), TableRows(Year, 2, MaxCols), t, <<>>)
        : t \in Texts }
    \cup
    { Call(e, ScenarioHeaders, ScenarioRows, ScenarioText, <<>>) : e \in Engines }

-----------------------------------------------------------------------------
(* build_pdf and _build_simple_pdf, step by step *)

inputs == <<engine, headers, rows, analysis_text, report_year, report_label,
            comparison_tables>>
tableVars == <<table_title, table_headers, table_rows, row_i, y_local, comp_i>>
narrVars == <<blocks, block_i, y, wrapped, idx_line>>
asmVars == <<page_streams, objects, font_obj, content_obj_ids, page_obj_start,
             pages_obj_id, page_obj_ids, pages_obj, catalog_obj>>

Blank ==
    /\ pages = <<>> /\ page = 0
    /\ table_title = "" /\ table_headers = <<>> /\ table_rows = <<>>
    /\ row_i = 0 /\ y_local = 0 /\ comp_i = 0
    /\ blocks = <<>> /\ block_i = 0 /\ y = 0 /\ wrapped = <<>> /\ idx_line = 0
    /\ page_streams = <<>> /\ objects = <<>> /\ font_obj = 0
    /\ content_obj_ids = <<>> /\ page_obj_start = 0 /\ pages_obj_id = 0
    /\ page_obj_ids = <<>> /\ pages_obj = 0 /\ catalog_obj = 0
    /\ out = None /\ file = None /\ result = None

Init ==
    /\ \E c \in Calls :
          /\ engine = c.engine
          /\ headers = c.headers
          /\ rows = c.rows
          /\ analysis_text = c.analysis_text
          /\ comparison_tables = c.comparison_tables
    /\ report_year = Year
    /\ report_label = "S-1/F-1"
    /\ pc = "build_pdf"
    /\ Blank

\* An engine check that lets an unrecognised value through to the builtin path.
CheckEngine_unknown_is_simple ==
    /\ pc = "build_pdf"
    /\ pc' = IF engine \in {"auto", "weasyprint"} THEN "weasy" ELSE "simple"
    /\ UNCHANGED <<inputs, pages, page, tableVars, narrVars, asmVars, out, file, result>>

\* pdf.py 381-384: the engine check and the choice of the first renderer.
CheckEngine ==
    /\ pc = "build_pdf"
    /\ IF engine \notin {"auto", "simple", "weasyprint"}
       THEN pc' = "raised" /\ result' = "ValueError"
       ELSE /\ pc' = IF engine \in {"auto", "weasyprint"} THEN "weasy" ELSE "simple"
            /\ result' = result
    /\ UNCHANGED <<inputs, pages, page, tableVars, narrVars, asmVars, out, file>>

\* pdf.py 386-387: _build_weasy_pdf returns; the file holds the renderer's output.
WeasySucceeds ==
    /\ pc = "weasy"
    /\ file' = "weasyprint output"
    /\ result' = "weasyprint"
    /\ pc' = "returned"
    /\ UNCHANGED <<inputs, pages, page, tableVars, narrVars, asmVars, out>>

\* A handler that re-raises whatever the engine is.
WeasyFails_always_raises ==
    /\ pc = "weasy"
    /\ file' \in {file, "weasyprint partial output"}
    /\ pc' = "raised" /\ result' = "Exception"
    /\ UNCHANGED <<inputs, pages, page, tableVars, narrVars, asmVars, out>>

\* pdf.py 388-390: _build_weasy_pdf raises (the import at 365, or the renderer,
\* which may or may not have touched the file by then).
WeasyFails ==
    /\ pc = "weasy"
    /\ file' \in {file, "weasyprint partial output"}
    /\ IF engine = "weasyprint"
       THEN pc' = "raised" /\ result' = "Exception"
       ELSE pc' = "simple" /\ result' = result
    /\ UNCHANGED <<inputs, pages, page, tableVars, narrVars, asmVars, out>>

\* pdf.py 107-112 and the call of render_table at 144.
SimpleStart ==
    /\ pc = "simple"
    /\ pages' = << text(text(<<>>, 30, 580, 18,
                             "EDGAR Agents " \o report_label \o " Monthly Filing Report ("
                                \o ToString(report_year) \o ")"),
                        30, 560, 11,
                        "12-month landscape table includes Jan-Dec, with row and column totals.") >>
    /\ page' = 1
    /\ table_title' = section_title(report_year)
    /\ table_headers' = headers
    /\ table_rows' = rows
    /\ pc' = "render_table"
    /\ UNCHANGED <<inputs, row_i, y_local, comp_i, narrVars, asmVars, out, file, result>>

\* pdf.py 132-134: the title and the header row of a section's first page.
RenderTableHead ==
    /\ pc = "render_table"
    /\ pages' = [pages EXCEPT ![page] =
                    draw_dynamic_header(text(@, 30, 540, 13, table_title), 525)]
    /\ y_local' = 525 - 14
    /\ row_i' = 1
    /\ pc' = "rows"
    /\ UNCHANGED <<inputs, page, table_title, table_headers, table_rows, comp_i,
                   narrVars, asmVars, out, file, result>>

\* A row loop that opens the continuation page and moves on to the next row
\* without drawing the row that did not fit.
RenderRow_drop_at_break ==
    /\ pc = "rows"
    /\ row_i <= Len(table_rows)
    /\ IF y_local < 40
       THEN /\ pages' = Append(pages,
                            draw_dynamic_header(
                                text(<<>>, 30, 580, 13, table_title \o " (continued)"), 560))
            /\ page' = Len(pages) + 1
            /\ y_local' = 560 - 14
       ELSE /\ pages' = [pages EXCEPT ![page] =
                            draw_cells(@, table_rows[row_i], y_local, 7, 0)]
            /\ page' = page
            /\ y_local' = y_local - 12
    /\ row_i' = row_i + 1
    /\ UNCHANGED <<inputs, pc, table_title, table_headers, table_rows, comp_i,
                   narrVars, asmVars, out, file, result>>

\* A row loop that tests the cursor after the row is drawn: the continuation
\* page is opened as soon as the page is full, whether or not a row remains.
RenderRow_break_after_row ==
    /\ pc = "rows"
    /\ row_i <= Len(table_rows)
    /\ LET drawn == [pages EXCEPT ![page] = draw_cells(@, table_rows[row_i], y_local, 7, 0)]
           brk == y_local - 12 < 40
       IN  /\ pages' = IF brk
                       THEN Append(drawn,
                                   draw_dynamic_header(
                                       text(<<>>, 30, 580, 13, table_title \o " (continued)"),
                                       560))
                       ELSE drawn
           /\ page' = IF brk THEN Len(pages) + 1 ELSE page
           /\ y_local' = IF brk THEN 560 - 14 ELSE y_local - 12
    /\ row_i' = row_i + 1
    /\ UNCHANGED <<inputs, pc, table_title, table_headers, table_rows, comp_i,
                   narrVars, asmVars, out, file, result>>

\* A row loop that breaks one row early: the test is against 52 instead of 40.
RenderRow_early_break ==
    /\ pc = "rows"
    /\ row_i <= Len(table_rows)
    /\ LET brk == y_local < 52
           pgs == IF brk
                  THEN Append(pages,
                              draw_dynamic_header(
                                  text(<<>>, 30, 580, 13, table_title \o " (continued)"), 560))
                  ELSE pages
           pg == IF brk THEN Len(pages) + 1 ELSE page
           y_row == IF brk THEN 560 - 14 ELSE y_local
       IN  /\ pages' = [pgs EXCEPT ![pg] = draw_cells(@, table_rows[row_i], y_row, 7, 0)]
           /\ page' = pg
           /\ y_local' = y_row - 12
    /\ row_i' = row_i + 1
    /\ UNCHANGED <<inputs, pc, table_title, table_headers, table_rows, comp_i,
                   narrVars, asmVars, out, file, result>>

\* pdf.py 135-142: one iteration of the row loop.
RenderRow ==
    /\ pc = "rows"
    /\ row_i <= Len(table_rows)
    /\ LET brk == y_local < 40
           pgs == IF brk
                  THEN Append(pages,
                              draw_dynamic_header(
                                  text(<<>>, 30, 580, 13, table_title \o " (continued)"), 560))
                  ELSE pages
           pg == IF brk THEN Len(pages) + 1 ELSE page
           y_row == IF brk THEN 560 - 14 ELSE y_local
       IN  /\ pages' = [pgs EXCEPT ![pg] = draw_cells(@, table_rows[row_i], y_row, 7, 0)]
           /\ page' = pg
           /\ y_local' = y_row - 12
    /\ row_i' = row_i + 1
    /\ UNCHANGED <<inputs, pc, table_title, table_headers, table_rows, comp_i,
                   narrVars, asmVars, out, file, result>>

\* render_table returns when the rows are exhausted.
RenderTableReturn ==
    /\ pc = "rows"
    /\ row_i > Len(table_rows)
    /\ pc' = "comparisons"
    /\ UNCHANGED <<inputs, pages, page, tableVars, narrVars, asmVars, out, file, result>>

\* pdf.py 146-148: one iteration of the loop over comparison_tables.
NextComparison ==
    /\ pc = "comparisons"
    /\ comp_i < Len(comparison_tables)
    /\ pages' = Append(pages, <<>>)
    /\ page' = Len(pages) + 1
    /\ comp_i' = comp_i + 1
    /\ table_title' = section_title(comparison_tables[comp_i + 1][1])
    /\ table_headers' = comparison_tables[comp_i + 1][2]
    /\ table_rows' = comparison_tables[comp_i + 1][3]
    /\ pc' = "render_table"
    /\ UNCHANGED <<inputs, row_i, y_local, narrVars, asmVars, out, file, result>>

\* A narrative pass that starts on the current page instead of a new one.
NarrativeStart_same_page ==
    /\ pc = "comparisons"
    /\ comp_i >= Len(comparison_tables)
    /\ pages' = [pages EXCEPT ![page] = text(@, 30, 580, 14, "Executive Analysis")]
    /\ page' = page
    /\ y' = 560
    /\ blocks' = _parse_analysis_blocks(analysis_text)
    /\ block_i' = 1
    /\ pc' = "blocks"
    /\ UNCHANGED <<inputs, tableVars, wrapped, idx_line, asmVars, out, file, result>>

\* pdf.py 150-153: the first narrative page and the classification of the text.
NarrativeStart ==
    /\ pc = "comparisons"
    /\ comp_i >= Len(comparison_tables)
    /\ pages' = Append(pages, text(<<>>, 30, 580, 14, "Executive Analysis"))
    /\ page' = Len(pages) + 1
    /\ y' = 560
    /\ blocks' = _parse_analysis_blocks(analysis_text)
    /\ block_i' = 1
    /\ pc' = "blocks"
    /\ UNCHANGED <<inputs, tableVars, wrapped, idx_line, asmVars, out, file, result>>

\* A spacer handled after the page break test instead of before it.
BlockSpace_after_break_test ==
    /\ pc = "blocks"
    /\ block_i <= Len(blocks)
    /\ blocks[block_i][1] = "space"
    /\ LET b == narrative_break(pages, page, y)
       IN  pages' = b.pages /\ page' = b.page /\ y' = b.y - 6
    /\ block_i' = block_i + 1
    /\ UNCHANGED <<inputs, pc, tableVars, blocks, wrapped, idx_line,
                   asmVars, out, file, result>>

\* pdf.py 154-156: a spacer block.
BlockSpace ==
    /\ pc = "blocks"
    /\ block_i <= Len(blocks)
    /\ blocks[block_i][1] = "space"
    /\ y' = y - 6
    /\ block_i' = block_i + 1
    /\ UNCHANGED <<inputs, pc, pages, page, tableVars, blocks, wrapped, idx_line,
                   asmVars, out, file, result>>

\* pdf.py 158-164 (173, 182): the page break ahead of a block, then its wrapping.
BlockStart ==
    /\ pc = "blocks"
    /\ block_i <= Len(blocks)
    /\ blocks[block_i][1] # "space"
    /\ LET b == narrative_break(pages, page, y)
       IN  pages' = b.pages /\ page' = b.page /\ y' = b.y
    /\ wrapped' = wrap_or_content(blocks[block_i][2], wrap_width(blocks[block_i][1]))
    /\ idx_line' = 0
    /\ pc' = "lines"
    /\ UNCHANGED <<inputs, tableVars, blocks, block_i, asmVars, out, file, result>>

\* A line loop that opens the continuation page and moves on to the next line
\* without drawing the line that did not fit.
DrawLine_drop_at_break ==
    /\ pc = "lines"
    /\ idx_line < Len(wrapped)
    /\ LET block_type == blocks[block_i][1]
           b == narrative_break(pages, page, y)
           prefix == IF block_type # "bullet" THEN ""
                     ELSE IF idx_line = 0 THEN BulletGlyph \o " " ELSE "  "
       IN  /\ pages' = IF y < 30 THEN b.pages
                       ELSE [b.pages EXCEPT ![b.page] =
                               text(@, 30, b.y, font_size(block_type),
                                    prefix \o wrapped[idx_line + 1])]
           /\ page' = b.page
           /\ y' = b.y - line_step(block_type)
    /\ idx_line' = idx_line + 1
    /\ UNCHANGED <<inputs, pc, tableVars, blocks, block_i, wrapped, asmVars, out,
                   file, result>>

\* A line loop that gives the bullet glyph to the first line of every page too.
DrawLine_bullet_after_break ==
    /\ pc = "lines"
    /\ idx_line < Len(wrapped)
    /\ LET block_type == blocks[block_i][1]
           b == narrative_break(pages, page, y)
           prefix == IF block_type # "bullet" THEN ""
                     ELSE IF idx_line = 0 \/ y < 30 THEN BulletGlyph \o " " ELSE "  "
       IN  /\ pages' = [b.pages EXCEPT ![b.page] =
                           text(@, 30, b.y, font_size(block_type),
                                prefix \o wrapped[idx_line + 1])]
           /\ page' = b.page
           /\ y' = b.y - line_step(block_type)
    /\ idx_line' = idx_line + 1
    /\ UNCHANGED <<inputs, pc, tableVars, blocks, block_i, wrapped, asmVars, out,
                   file, result>>

\* pdf.py 165-170, 174-180, 183-188: one wrapped line of the current block.
DrawLine ==
    /\ pc = "lines"
    /\ idx_line < Len(wrapped)
    /\ LET block_type == blocks[block_i][1]
           b == narrative_break(pages, page, y)
           prefix == IF block_type # "bullet" THEN ""
                     ELSE IF idx_line = 0 THEN BulletGlyph \o " " ELSE "  "
       IN  /\ pages' = [b.pages EXCEPT ![b.page] =
                           text(@, 30, b.y, font_size(block_type),
                                prefix \o wrapped[idx_line + 1])]
           /\ page' = b.page
           /\ y' = b.y - line_step(block_type)
    /\ idx_line' = idx_line + 1
    /\ UNCHANGED <<inputs, pc, tableVars, blocks, block_i, wrapped, asmVars, out,
                   file, result>>

\* The end of a block's line loop; pdf.py 171: the gap after a heading.
BlockEnd ==
    /\ pc = "lines"
    /\ idx_line >= Len(wrapped)
    /\ y' = IF blocks[block_i][1] = "heading" THEN y - 2 ELSE y
    /\ block_i' = block_i + 1
    /\ pc' = "blocks"
    /\ UNCHANGED <<inputs, pages, page, tableVars, blocks, wrapped, idx_line, asmVars,
                   out, file, result>>

\* pdf.py 190-195: the page streams, the store and its font object.
AssembleStart ==
    /\ pc = "blocks"
    /\ block_i > Len(blocks)
    /\ page_streams' = [j \in 1..Len(pages) |-> build_stream(pages[j])]
    /\ objects' = add_object(<<>>, "<< /Type /Font /Subtype /Type1 /BaseFont /Helvetica >>")
    /\ font_obj' = 1
    /\ content_obj_ids' = <<>>
    /\ pc' = "content_objects"
    /\ UNCHANGED <<inputs, pages, page, tableVars, narrVars, page_obj_start,
                   pages_obj_id, page_obj_ids, pages_obj, catalog_obj, out, file, result>>

\* pdf.py 196-199: one iteration, the content object of the next stream.
AddContentObject ==
    /\ pc = "content_objects"
    /\ Len(content_obj_ids) < Len(page_streams)
    /\ LET stream == page_streams[Len(content_obj_ids) + 1]
       IN  objects' = add_object(objects,
                          "<< /Length " \o ToString(Len(stream)) \o " >>\nstream\n"
                             \o stream \o "\nendstream")
    /\ content_obj_ids' = Append(content_obj_ids, Len(objects'))
    /\ UNCHANGED <<inputs, pc, pages, page, tableVars, narrVars, page_streams, font_obj,
                   page_obj_start, pages_obj_id, page_obj_ids, pages_obj, catalog_obj,
                   out, file, result>>

\* A plan that takes the id of the last page object for the page tree.
PlanPageIds_off_by_one ==
    /\ pc = "content_objects"
    /\ Len(content_obj_ids) >= Len(page_streams)
    /\ page_obj_start' = Len(objects) + 1
    /\ pages_obj_id' = Len(objects) + Len(page_streams)
    /\ page_obj_ids' = <<>>
    /\ pc' = "page_objects"
    /\ UNCHANGED <<inputs, pages, page, tableVars, narrVars, page_streams, objects,
                   font_obj, content_obj_ids, pages_obj, catalog_obj, out, file, result>>

\* pdf.py 201-204: the ids the page objects and the page tree are going to get.
PlanPageIds ==
    /\ pc = "content_objects"
    /\ Len(content_obj_ids) >= Len(page_streams)
    /\ page_obj_start' = Len(objects) + 1
    /\ pages_obj_id' = (Len(objects) + 1) + Len(page_streams)
    /\ page_obj_ids' = <<>>
    /\ pc' = "page_objects"
    /\ UNCHANGED <<inputs, pages, page, tableVars, narrVars, page_streams, objects,
                   font_obj, content_obj_ids, pages_obj, catalog_obj, out, file, result>>

\* The body of a page object, pdf.py 209-210.
page_body(parent, font, contents) ==
    "<< /Type /Page /Parent " \o ToString(parent) \o " 0 R /MediaBox [0 0 "
        \o ToString(792) \o " " \o ToString(612) \o "] "
        \o "/Resources << /Font << /F1 " \o ToString(font) \o " 0 R >> >> /Contents "
        \o ToString(contents) \o " 0 R >>"

\* pdf.py 205-213: one iteration, the page object of the next content object.
AddPageObject ==
    /\ pc = "page_objects"
    /\ Len(page_obj_ids) < Len(content_obj_ids)
    /\ objects' = add_object(objects,
                      page_body(pages_obj_id, font_obj,
                                content_obj_ids[Len(page_obj_ids) + 1]))
    /\ page_obj_ids' = Append(page_obj_ids, Len(objects'))
    /\ UNCHANGED <<inputs, pc, pages, page, tableVars, narrVars, page_streams, font_obj,
                   content_obj_ids, page_obj_start, pages_obj_id, pages_obj, catalog_obj,
                   out, file, result>>

\* The body of the page tree object, pdf.py 215-216.
pages_body(ids) ==
    "<< /Type /Pages /Kids ["
        \o join(" ", [k \in 1..Len(ids) |-> ToString(ids[k]) \o " 0 R"])
        \o "] /Count " \o ToString(Len(ids)) \o " >>"

\* pdf.py 215-216: the page tree object.
AddPagesObject ==
    /\ pc = "page_objects"
    /\ Len(page_obj_ids) >= Len(content_obj_ids)
    /\ objects' = add_object(objects, pages_body(page_obj_ids))
    /\ pages_obj' = Len(objects')
    /\ pc' = "catalog"
    /\ UNCHANGED <<inputs, pages, page, tableVars, narrVars, page_streams, font_obj,
                   content_obj_ids, page_obj_start, pages_obj_id, page_obj_ids,
                   catalog_obj, out, file, result>>

\* The body of the catalog object, pdf.py 217.
catalog_body(tree) == "<< /Type /Catalog /Pages " \o ToString(tree) \o " 0 R >>"

\* pdf.py 217: the catalog object.
AddCatalogObject ==
    /\ pc = "catalog"
    /\ objects' = add_object(objects, catalog_body(pages_obj))
    /\ catalog_obj' = Len(objects')
    /\ pc' = "write"
    /\ UNCHANGED <<inputs, pages, page, tableVars, narrVars, page_streams, font_obj,
                   content_obj_ids, page_obj_start, pages_obj_id, page_obj_ids,
                   pages_obj, out, file, result>>

\* pdf.py 219-220: the document is serialised and written to output_path.
WriteFile ==
    /\ pc = "write"
    /\ out' = build(objects, catalog_obj)
    /\ file' = out'
    /\ pc' = "written"
    /\ UNCHANGED <<inputs, pages, page, tableVars, narrVars, asmVars, result>>

\* pdf.py 393.
ReturnSimple ==
    /\ pc = "written"
    /\ result' = "simple"
    /\ pc' = "returned"
    /\ UNCHANGED <<inputs, pages, page, tableVars, narrVars, asmVars, out, file>>

Next ==
    \/ CheckEngine
    \/ WeasySucceeds
    \/ WeasyFails
    \/ SimpleStart
    \/ RenderTableHead
    \/ RenderRow
    \/ RenderTableReturn
    \/ NextComparison
    \/ NarrativeStart
    \/ BlockSpace
    \/ BlockStart
    \/ DrawLine
    \/ BlockEnd
    \/ AssembleStart
    \/ AddContentObject
    \/ PlanPageIds
    \/ AddPageObject
    \/ AddPagesObject
    \/ AddCatalogObject
    \/ WriteFile
    \/ ReturnSimple

Spec == Init /\ [][Next]_vars

-----------------------------------------------------------------------------
(* A SimplePdf driven directly: any sequence of add_object calls, then build *)

ObjectBodies == {"", "<< /Title (2 0 obj) >>"}

InitPdf ==
    /\ engine = "simple" /\ headers = <<>> /\ rows = <<>> /\ analysis_text = ""
    /\ comparison_tables = <<>> /\ report_year = Year /\ report_label = "S-1/F-1"
    /\ pc = "pdf"
    /\ Blank

\* SimplePdf.add_object, pdf.py 11-13.
PdfAddObject ==
    /\ pc = "pdf"
    /\ Len(objects) < MaxObjects
    /\ \E data \in ObjectBodies : objects' = add_object(objects, data)
    /\ UNCHANGED <<inputs, pc, pages, page, tableVars, narrVars, page_streams, font_obj,
                   content_obj_ids, page_obj_start, pages_obj_id, page_obj_ids, pages_obj,
                   catalog_obj, out, file, result>>

\* SimplePdf.build, pdf.py 15-37, with the root the caller names.
PdfBuild ==
    /\ pc = "pdf"
    /\ \E root_obj \in {1, Len(objects)} :
          /\ out' = build(objects, root_obj)
          /\ catalog_obj' = root_obj
    /\ pc' = "built"
    /\ UNCHANGED <<inputs, pages, page, tableVars, narrVars, page_streams, objects,
                   font_obj, content_obj_ids, page_obj_start, pages_obj_id, page_obj_ids,
                   pages_obj, file, result>>

NextPdf == PdfAddObject \/ PdfBuild

SpecPdf == InitPdf /\ [][NextPdf]_vars

-----------------------------------------------------------------------------
(* Cross-reference integrity *)

\* The text of object i as the document holds it.
ObjectText(i) == ToString(i) \o " 0 obj\n" \o objects[i] \o "\nendobj\n"

\* The number a string of decimal digits states; -1 when it is no such string.
IsDigit(ch) == \E d \in 0..9 : ToString(d) = ch

DigitValue(ch) == CHOOSE d \in 0..9 : ToString(d) = ch

RECURSIVE DigitsValue(_, _)
DigitsValue(s, n) ==
    IF n = 0 THEN 0 ELSE 10 * DigitsValue(s, n - 1) + DigitValue(Char(s, n))

ParseNat(s) ==
    IF Len(s) > 0 /\ \A k \in 1..Len(s) : IsDigit(Char(s, k))
    THEN DigitsValue(s, Len(s))
    ELSE -1

\* The document `doc` built from `objects`: its trailer ends with a startxref
\* value p at which the keyword xref stands, and the entry of every object id i
\* states the offset at which "i 0 obj" and the rest of that object begin, the
\* objects lying back to back after the 9 bytes of the header.
XrefIntegrity(doc) ==
    LET n == Len(objects)
        eof == "\n%%EOF\n"
        head == "xref\n0 " \o ToString(n + 1) \o "\n"
    IN  \E d \in 1..10 :
          LET p == ParseNat(SubSeq(doc, Len(doc) - Len(eof) - d + 1, Len(doc) - Len(eof)))
              offs == [i \in 1..n |->
                         ParseNat(SubSeq(doc, p + Len(head) + 20 * i + 1,
                                              p + Len(head) + 20 * i + 10))]
          IN  /\ p >= 0
              /\ SubSeq(doc, Len(doc) - Len(eof) - d - 9, Len(doc) - Len(eof) - d)
                    = "startxref\n"
              /\ SubSeq(doc, Len(doc) - Len(eof) + 1, Len(doc)) = eof
              /\ SubSeq(doc, p + 1, p + Len(head)) = head
              /\ \A i \in 1..n :
                   /\ SubSeq(doc, p + Len(head) + 20 * i + 11, p + Len(head) + 20 * i + 20)
                         = " 00000 n \n"
                   /\ offs[i] >= 0
                   /\ SubSeq(doc, offs[i] + 1, offs[i] + Len(ObjectText(i))) = ObjectText(i)
                   /\ offs[i] = IF i = 1 THEN 9 ELSE offs[i - 1] + Len(ObjectText(i - 1))

\* C3: after any sequence of add_object calls and build, the cross-reference
\* entry of every object id i states exactly the position at which the text
\* "i 0 obj" of that object begins, and startxref states the position of the
\* xref keyword.
C3_XrefOffsets == pc = "built" => XrefIntegrity(out)

\* A store of ten objects (a two-digit id) with a non-empty body has been built.
C3_Witness ==
    /\ pc = "built"
    /\ Len(objects) >= 10
    /\ \E i \in 1..Len(objects) : objects[i] # ""

-----------------------------------------------------------------------------
(* The classifier applied directly to every short text *)

Alphabet == {"a", " ", "\n", "\r", "#", "-", "*", "_", Backquote}

RECURSIVE TextsOfLen(_)
TextsOfLen(n) ==
    IF n = 0 THEN {""} ELSE {t \o ch : t \in TextsOfLen(n - 1), ch \in Alphabet}

ShortTexts == UNION {TextsOfLen(n) : n \in 0..MaxTextLen}

InitClassify ==
    /\ analysis_text \in ShortTexts
    /\ engine = "simple" /\ headers = <<>> /\ rows = <<>>
    /\ comparison_tables = <<>> /\ report_year = Year /\ report_label = "S-1/F-1"
    /\ pc = "classify"
    /\ Blank

\* blocks = _parse_analysis_blocks(analysis_text), pdf.py 153 (and 249).
Classify ==
    /\ pc = "classify"
    /\ blocks' = _parse_analysis_blocks(analysis_text)
    /\ pc' = "classified"
    /\ UNCHANGED <<inputs, pages, page, tableVars, block_i, y, wrapped, idx_line,
                   asmVars, out, file, result>>

NextClassify == Classify

SpecClassify == InitClassify /\ [][NextClassify]_vars

\* The lines of a text, counted on the text itself: every line terminator
\* ("\n", "\r", form feed; "\r\n" is one) ends a line, and what follows the last
\* terminator is a line when it is not empty.
Terminators(s) ==
    {i \in 1..Len(s) : /\ Char(s, i) \in {"\n", "\r", "\f"}
                       /\ ~(Char(s, i) = "\r" /\ i < Len(s) /\ Char(s, i + 1) = "\n")}

LineCount(s) ==
    Cardinality(Terminators(s))
      + (IF s # "" /\ Len(s) \notin Terminators(s) THEN 1 ELSE 0)

\* The i-th line: from after the (i-1)-th terminator up to the i-th one, the
\* terminator itself left out.
NthLine(s, i) ==
    LET ends == Terminators(s) \cup {Len(s) + 1}
        nth(k) == CHOOSE e \in ends : Cardinality({e2 \in ends : e2 < e}) = k - 1
        from == IF i = 1 THEN 1 ELSE nth(i - 1) + 1
        upto == nth(i) - 1
    IN  IF upto >= from /\ upto <= Len(s) /\ Char(s, upto) = "\r"
           /\ upto < Len(s) /\ Char(s, upto + 1) = "\n"
        THEN SubSeq(s, from, upto - 1)
        ELSE SubSeq(s, from, upto)

\* The kind the data model gives a line: trimmed; empty is a spacer; one or
\* more "#" first is a heading; "- " or "* " first is a bullet; else paragraph.
KindOfLine(line) ==
    LET t == strip(line)
    IN  IF t = "" THEN "space"
        ELSE IF Char(t, 1) = "#" THEN "heading"
        ELSE IF Len(t) >= 2 /\ Char(t, 1) \in {"-", "*"} /\ Char(t, 2) = " " THEN "bullet"
        ELSE "paragraph"

\* C6: the classifier returns as many blocks as the text has lines, blank
\* lines included, and the i-th block is of the kind of the i-th line.
C6_OneBlockPerLine ==
    pc = "classified" =>
        /\ Len(blocks) = LineCount(analysis_text)
        /\ \A i \in 1..Len(blocks) :
              blocks[i][1] = KindOfLine(NthLine(analysis_text, i))

\* A text with a blank line between two others has been classified.
C6_Witness ==
    /\ pc = "classified"
    /\ analysis_text = "#\n\na"
    /\ Len(blocks) = 3

\* C7 as stated: the empty text is classified into exactly one spacer.
C7_EmptyTextOneSpacer ==
    (pc = "classified" /\ analysis_text = "") => blocks = << <<"space", "">> >>

\* C7, amended: the empty text has no line and is classified into no block
\* at all; the text of one blank line is classified into exactly one spacer.
C7_EmptyTextNoBlock ==
    pc = "classified" =>
        /\ analysis_text = "" => blocks = <<>>
        /\ analysis_text = "\n" => blocks = << <<"space", "">> >>

\* The empty text has been classified.
C7_Witness == pc = "classified" /\ analysis_text = "" /\ Len(blocks) = 0

-----------------------------------------------------------------------------
(* Reading the canvases back *)

\* The text calls a canvas holds: five lines each; the font line, the position
\* line and the show-text line of every call.
Ops(lines) ==
    [k \in 1..(Len(lines) \div 5) |->
        [tf |-> lines[5 * k - 3], td |-> lines[5 * k - 2], tj |-> lines[5 * k - 1]]]

Tf(size) == "/F1 " \o ToString(size) \o " Tf"

Tj(content) == "(" \o _esc(content) \o ") Tj"

OpsOfSize(lines, size) == SelectSeq(Ops(lines), LAMBDA o : o.tf = Tf(size))

OpsNotOfSize(lines, size) == SelectSeq(Ops(lines), LAMBDA o : o.tf # Tf(size))

RECURSIVE ConcatRange(_, _, _)
ConcatRange(seqs, lo, hi) ==
    IF lo > hi THEN <<>>
    ELSE IF lo = hi THEN seqs[lo]
    ELSE LET mid == (lo + hi) \div 2
         IN  ConcatRange(seqs, lo, mid) \o ConcatRange(seqs, mid + 1, hi)

Concat(seqs) == ConcatRange(seqs, 1, Len(seqs))

\* Table t of the call: 0 is the primary table, k the k-th comparison table.
TableOf(t) == IF t = 0 THEN <<report_year, headers, rows>> ELSE comparison_tables[t]

TitleOf(t) == ToString(TableOf(t)[1]) \o " " \o report_label \o " Filing Volume by Agent"

\* Number of cells of the tables before table t.
RECURSIVE CellsBefore(_)
CellsBefore(t) ==
    IF t = 0 THEN 0
    ELSE CellsBefore(t - 1) + Len(TableOf(t - 1)[3]) * Len(TableOf(t - 1)[2])

\* The data cells (font size 7) on the canvases, in page order, each with its page.
DataDrawn ==
    Concat([pg \in 1..Len(pages) |->
              LET ops == OpsOfSize(pages[pg], 7)
              IN  [k \in 1..Len(ops) |-> [pg |-> pg, td |-> ops[k].td, tj |-> ops[k].tj]]])

\* The position line without its x part, for column c (1-based).
YPart(td, c) ==
    LET x == ToString(x_positions(c - 1) + 2) \o " "
    IN  IF startswith(td, x) THEN SubSeq(td, Len(x) + 1, Len(td)) ELSE "?"

\* C1: when render_table returns, the data cells on the canvases are exactly
\* the cells of the rows of the tables rendered so far, row after row in input
\* order, every row once, the cells of a row on one page at one height and at
\* the columns' x positions: no row is omitted, duplicated or reordered.
C1_RowsPlacedOnce ==
    pc = "comparisons" =>
        LET D == DataDrawn
        IN  /\ Len(D) = CellsBefore(comp_i + 1)
            /\ \A t \in 0..comp_i :
                 LET n == Len(TableOf(t)[2])
                 IN  \A r \in 1..Len(TableOf(t)[3]) :
                       LET at == CellsBefore(t) + (r - 1) * n
                       IN  \A c \in 1..n :
                             /\ D[at + c].tj = Tj(TableOf(t)[3][r][c])
                             /\ D[at + c].pg = D[at + 1].pg
                             /\ YPart(D[at + c].td, c) # "?"
                             /\ YPart(D[at + c].td, c) = YPart(D[at + 1].td, 1)

\* A primary table whose rows took two page breaks has been rendered.
C1_Witness ==
    /\ pc = "comparisons"
    /\ comparison_tables = <<>>
    /\ Len(rows) >= 84
    /\ Len(pages) = 3

\* The page's section title (font size 13) is that of table t, first page or
\* continuation, and its header row (font size 8) is the headers of table t.
PageOfSection(lines, t) ==
    LET titles == OpsOfSize(lines, 13)
        heads == OpsOfSize(lines, 8)
        hdr == TableOf(t)[2]
    IN  /\ Len(titles) = 1
        /\ titles[1].tj \in {Tj(TitleOf(t)), Tj(TitleOf(t) \o " (continued)")}
        /\ Len(heads) = Len(hdr)
        /\ \A c \in 1..Len(hdr) : heads[c].tj = Tj(hdr[c])

\* C8: with the primary table and the comparison tables rendered so far, every
\* page belongs to exactly one section (one section title, that section's own
\* headers), each section's title without "(continued)" is on exactly one page,
\* and there are as many sections as tables: k + 1 when all k comparison tables
\* are rendered.
C8_SectionsOwnPagesAndHeaders ==
    pc = "comparisons" =>
        /\ \A pg \in 1..Len(pages) : \E t \in 0..comp_i : PageOfSection(pages[pg], t)
        /\ \A t \in 0..comp_i :
             Cardinality({pg \in 1..Len(pages) :
                            /\ Len(OpsOfSize(pages[pg], 13)) = 1
                            /\ OpsOfSize(pages[pg], 13)[1].tj = Tj(TitleOf(t))}) = 1
        /\ Cardinality({pg \in 1..Len(pages) :
                          \E t \in 0..comp_i :
                             /\ Len(OpsOfSize(pages[pg], 13)) = 1
                             /\ OpsOfSize(pages[pg], 13)[1].tj = Tj(TitleOf(t))})
              = comp_i + 1

\* Two comparison tables are rendered; the second took a continuation page.
C8_Witness ==
    /\ pc = "comparisons"
    /\ Len(comparison_tables) = 2
    /\ comp_i = 2
    /\ Len(comparison_tables[2][3]) >= 41
    /\ Len(pages) >= 4

\* The narrative pages: those that carry the font size 14 title.
NarrativePages == {pg \in 1..Len(pages) : OpsOfSize(pages[pg], 14) # <<>>}

\* What the narrative pages show below their titles, in page order.
NarrativeDrawn ==
    Concat([pg \in 1..Len(pages) |->
              IF pg \in NarrativePages
              THEN [k \in 1..Len(OpsNotOfSize(pages[pg], 14)) |->
                      <<OpsNotOfSize(pages[pg], 14)[k].tf, OpsNotOfSize(pages[pg], 14)[k].tj>>]
              ELSE <<>>])

\* The lines a block is to show: its cleaned text wrapped at the width of its
\* kind, one empty line when the cleaned text is empty; a bullet's first line
\* after the glyph, its later lines after the blank indent.
BlockLines(b) ==
    LET kind == b[1]
        ls == IF b[2] = "" THEN <<"">> ELSE wrap(b[2], wrap_width(kind))
    IN  [k \in 1..Len(ls) |->
            << Tf(IF kind = "heading" THEN 11 ELSE 9),
               Tj((IF kind # "bullet" THEN ""
                   ELSE IF k = 1 THEN BulletGlyph \o " " ELSE "  ") \o ls[k]) >>]

\* C2: when the narrative pass ends, the narrative pages show, in order and
\* once each, every wrapped line of every heading, bullet and paragraph block
\* (one empty line for a block whose cleaned text is empty), whatever the page
\* breaks.
C2_NarrativeLinesPlacedOnce ==
    (pc = "blocks" /\ block_i > Len(blocks)) =>
        NarrativeDrawn =
            Concat([i \in 1..Len(blocks) |->
                      IF blocks[i][1] = "space" THEN <<>> ELSE BlockLines(blocks[i])])

\* A narrative of two pages has been laid out whose page break fell inside the
\* last block: the block has three lines or more, the last page one or two.
C2_Witness ==
    /\ pc = "blocks" /\ block_i > Len(blocks)
    /\ Cardinality(NarrativePages) = 2
    /\ Len(wrapped) >= 3
    /\ Len(OpsNotOfSize(pages[Len(pages)], 14)) \in 1..2

\* The narrative of a text with empty cleaned blocks has been laid out.
C2_WitnessEmptyBlock ==
    /\ pc = "blocks" /\ block_i > Len(blocks)
    /\ \E i \in 1..Len(blocks) : blocks[i][1] # "space" /\ blocks[i][2] = ""

-----------------------------------------------------------------------------
(* The assembled document *)

endswith(s, suffix) ==
    Len(s) >= Len(suffix) /\ SubSeq(s, Len(s) - Len(suffix) + 1, Len(s)) = suffix

ObjectsThatStart(prefix) == {i \in 1..Len(objects) : startswith(objects[i], prefix)}

\* The root the trailer of `doc` names is object id r.
TrailerRoot(doc, r) ==
    LET t == "trailer\n<< /Size " \o ToString(Len(objects) + 1) \o " /Root "
                \o ToString(r) \o " 0 R >>\nstartxref\n"
        eof == "\n%%EOF\n"
    IN  \E d \in 1..10 :
          SubSeq(doc, Len(doc) - Len(eof) - d - Len(t) + 1, Len(doc) - Len(eof) - d) = t

\* C9: in the written document exactly one object is a page tree and one a
\* catalog; the id planned for the tree before it existed is the id add_object
\* gave it; every page object names that tree as /Parent and, as /Contents, the
\* content object made of its own page's stream; /Kids lists the page objects
\* in page order with /Count = P; the catalog names the tree; the trailer's
\* root is the catalog.
C9_ReferencesResolve ==
    pc = "written" =>
        LET P == Len(pages)
        IN  \E tree \in 1..Len(objects), cat \in 1..Len(objects) :
              /\ ObjectsThatStart("<< /Type /Pages ") = {tree}
              /\ ObjectsThatStart("<< /Type /Catalog ") = {cat}
              /\ pages_obj = tree /\ pages_obj_id = tree /\ catalog_obj = cat
              /\ objects[cat] = "<< /Type /Catalog /Pages " \o ToString(tree) \o " 0 R >>"
              /\ Len(page_obj_ids) = P /\ Len(content_obj_ids) = P
              /\ ObjectsThatStart("<< /Type /Page ") = {page_obj_ids[j] : j \in 1..P}
              /\ \A j \in 1..P :
                   /\ j > 1 => page_obj_ids[j] > page_obj_ids[j - 1]
                   /\ objects[content_obj_ids[j]] =
                         "<< /Length " \o ToString(Len(build_stream(pages[j])))
                            \o " >>\nstream\n" \o build_stream(pages[j]) \o "\nendstream"
                   /\ startswith(objects[page_obj_ids[j]],
                                 "<< /Type /Page /Parent " \o ToString(tree) \o " 0 R ")
                   /\ endswith(objects[page_obj_ids[j]],
                               " /Contents " \o ToString(content_obj_ids[j]) \o " 0 R >>")
              /\ objects[tree] =
                    "<< /Type /Pages /Kids ["
                       \o join(" ", [j \in 1..P |-> ToString(page_obj_ids[j]) \o " 0 R"])
                       \o "] /Count " \o ToString(P) \o " >>"
              /\ TrailerRoot(out, cat)

\* A document of four pages or more has been written.
C9_Witness == pc = "written" /\ Len(pages) >= 4 /\ Len(objects) = 2 * Len(pages) + 3

\* C10: for a primary table of 2 rows, no comparison table and the text
\* "## Summary\n- point one\n", the builtin engine lays out exactly 2 pages, the
\* first with the table and the second with the narrative, and the document has
\* 2 page objects; in auto mode, with the rich renderer failing, build_pdf
\* returns "simple".
C10_ScenarioA ==
    (Len(rows) = 2 /\ comparison_tables = <<>> /\ analysis_text = ScenarioText) =>
        /\ pc \in {"content_objects", "page_objects", "catalog", "write", "written"} =>
              /\ Len(pages) = 2
              /\ Len(OpsOfSize(pages[1], 7)) = 2 * Len(headers)
              /\ NarrativePages = {2}
        /\ pc = "written" =>
              /\ Cardinality(ObjectsThatStart("<< /Type /Page ")) = 2
              /\ \E i \in 1..Len(objects) : endswith(objects[i], "] /Count 2 >>")
        /\ (pc = "returned" /\ engine = "auto" /\ file # "weasyprint output") =>
              /\ result = "simple"
              /\ Len(pages) = 2
              /\ file = out /\ out # None

\* Scenario A has run in auto mode with the rich renderer failing.
C10_Witness ==
    /\ pc = "returned" /\ engine = "auto" /\ result = "simple"
    /\ rows = ScenarioRows /\ headers = ScenarioHeaders /\ analysis_text = ScenarioText
    /\ Len(pages) = 2

-----------------------------------------------------------------------------
(* The engine selector *)

BuiltinUntouched ==
    pages = <<>> /\ objects = <<>> /\ page_streams = <<>> /\ out = None

C4_State ==
    /\ pc = "weasy" => engine \in {"auto", "weasyprint"}
    /\ engine = "simple" =>
          /\ pc # "weasy"
          /\ file \notin {"weasyprint output", "weasyprint partial output"}
          /\ result \notin {"weasyprint", "Exception"}
    /\ engine = "weasyprint" =>
          /\ BuiltinUntouched
          /\ pc \in {"build_pdf", "weasy", "returned", "raised"}
          /\ pc = "raised" => result = "Exception"
          /\ pc = "returned" => result = "weasyprint"
    /\ engine = "auto" =>
          /\ pc # "raised"
          /\ result = "weasyprint" => (BuiltinUntouched /\ pc = "returned")
          /\ pc = "returned" =>
                \/ result = "weasyprint"
                \/ result = "simple" /\ out # None /\ file = out

C4_Step ==
    /\ (engine = "auto" /\ pc = "build_pdf") => pc' = "weasy"
    /\ (engine = "auto" /\ pc = "weasy") => pc' \in {"returned", "simple"}
    /\ (engine = "auto" /\ pc # "simple" /\ pc' = "simple") => pc = "weasy"
    /\ (engine = "weasyprint" /\ pc = "weasy") => pc' \in {"returned", "raised"}
    /\ (engine = "simple" /\ pc = "build_pdf") => pc' = "simple"

\* One call of build_pdf that is not suspended for ever: the interpreter goes
\* on executing the call as long as a statement is left to execute.
SpecFair == Spec /\ WF_vars(Next)

\* C4: in auto mode the rich renderer is attempted first; when it fails the
\* builtin renderer runs, is never stuck before build_pdf returns, and the call
\* returns "simple" with the builtin document in the file; when it succeeds the
\* builtin renderer is never run.  With the rich engine pinned a failure is
\* raised to the caller and the builtin renderer is never run.  With engine
\* "simple" the rich renderer is never attempted.
C4_EngineSelection ==
    /\ []C4_State
    /\ [][C4_Step]_vars
    /\ (engine = "auto" /\ pc = "simple") ~> (pc = "returned" /\ result = "simple")

\* The fallback has happened: auto mode, the builtin document returned.
C4_Witness ==
    /\ engine = "auto" /\ pc = "returned" /\ result = "simple"
    /\ file = out /\ out # None

\* C5: for an engine value outside {"auto", "simple", "weasyprint"} build_pdf
\* raises the configuration error at once: no renderer is started, nothing is
\* laid out or built, the file is not written.
C5_InvalidEngineRaises ==
    engine \notin {"auto", "simple", "weasyprint"} =>
        /\ pc \in {"build_pdf", "raised"}
        /\ pc = "raised" => result = "ValueError"
        /\ pc = "build_pdf" => result = None
        /\ file = None
        /\ BuiltinUntouched

\* build_pdf has raised for the engine value "rich".
C5_Witness == pc = "raised" /\ engine = "rich" /\ result = "ValueError" /\ file = None

-----------------------------------------------------------------------------
(* PageCanvas.text applied directly to every short string of backslashes,   *)
(* parentheses and a plain character                                        *)

MaxEscLen == 5        \* characters of a directly drawn string

EscAlphabet == {"\\", "(", ")", "a"}

RECURSIVE EscTextsOfLen(_)
EscTextsOfLen(n) ==
    IF n = 0 THEN {""} ELSE {t \o ch : t \in EscTextsOfLen(n - 1), ch \in EscAlphabet}

InitEsc ==
    /\ engine = "simple" /\ headers = <<>> /\ rows = <<>> /\ analysis_text = ""
    /\ comparison_tables = <<>> /\ report_year = Year /\ report_label = "S-1/F-1"
    /\ pc = "text"
    /\ \E s \in UNION {EscTextsOfLen(n) : n \in 0..MaxEscLen} :
          /\ wrapped = <<s>>
          /\ pages = << <<>> >> /\ page = 1
          /\ table_title = "" /\ table_headers = <<>> /\ table_rows = <<>>
          /\ row_i = 0 /\ y_local = 0 /\ comp_i = 0
          /\ blocks = <<>> /\ block_i = 0 /\ y = 560 /\ idx_line = 0
          /\ page_streams = <<>> /\ objects = <<>> /\ font_obj = 0
          /\ content_obj_ids = <<>> /\ page_obj_start = 0 /\ pages_obj_id = 0
          /\ page_obj_ids = <<>> /\ pages_obj = 0 /\ catalog_obj = 0
          /\ out = None /\ file = None /\ result = None

\* page.text(30, y, 9, wrapped), pdf.py 187, on an empty canvas.
EscText ==
    /\ pc = "text"
    /\ pages' = [pages EXCEPT ![page] = text(@, 30, y, 9, wrapped[1])]
    /\ pc' = "drawn"
    /\ UNCHANGED <<inputs, page, tableVars, blocks, block_i, y, wrapped, idx_line,
                   asmVars, out, file, result>>

NextEsc == EscText

SpecEsc == InitEsc /\ [][NextEsc]_vars

\* The operand of a show-text line "(...) Tj".
Operand(line) == SubSeq(line, 2, Len(line) - 4)

\* Un-escaping from position i on: a backslash stands for the character after it.
RECURSIVE unescape_from(_, _)
unescape_from(t, i) ==
    IF i > Len(t) THEN ""
    ELSE IF Char(t, i) = "\\" /\ i < Len(t)
         THEN Char(t, i + 1) \o unescape_from(t, i + 2)
         ELSE Char(t, i) \o unescape_from(t, i + 1)

\* From position i on, every backslash escapes a backslash or a parenthesis and
\* no parenthesis or backslash stands unescaped.
RECURSIVE well_escaped_from(_, _)
well_escaped_from(t, i) ==
    IF i > Len(t) THEN TRUE
    ELSE IF Char(t, i) = "\\"
         THEN /\ i < Len(t)
              /\ Char(t, i + 1) \in {"\\", "(", ")"}
              /\ well_escaped_from(t, i + 2)
         ELSE /\ Char(t, i) \notin {"(", ")"}
              /\ well_escaped_from(t, i + 1)

\* C11: for every string s of backslashes, parentheses and plain characters,
\* the show-text line PageCanvas.text appends is "(" operand ") Tj" where the
\* operand holds no unescaped parenthesis or backslash and un-escapes to s.
C11_EscapeRoundTrip ==
    pc = "drawn" =>
        LET line == pages[1][4]
        IN  /\ Len(pages[1]) = 5
            /\ line = "(" \o Operand(line) \o ") Tj"
            /\ well_escaped_from(Operand(line), 1)
            /\ unescape_from(Operand(line), 1) = wrapped[1]

\* A string with a backslash right before a parenthesis, and one at its end,
\* has been drawn.
C11_Witness == pc = "drawn" /\ wrapped = <<"\\()a\\">>

-----------------------------------------------------------------------------
(* The number of pages of a table section *)

\* pdf.py 134
table_bottom_limit == 40

\* The bottom limits the page count is compared for.
Limits == {16, 28, table_bottom_limit, 52}

\* The row loop of render_table, pdf.py 135-142, reduced to its cursor: the
\* number of pages of the section once `left` more rows are drawn from cursor
\* y_loc, for a bottom limit `limit`.
RECURSIVE table_pages_from(_, _, _, _)
table_pages_from(left, y_loc, limit, count) ==
    IF left = 0 THEN count
    ELSE IF y_loc < limit
         THEN table_pages_from(left - 1, (560 - 14) - 12, limit, count + 1)
         ELSE table_pages_from(left - 1, y_loc - 12, limit, count)

\* The pages of a section of n rows: the cursor starts below the header drawn
\* at 525 (pdf.py 133) on the one page the section starts with.
table_pages(n, limit) == table_pages_from(n, 525 - 14, limit, 1)

\* The sections rendered so far, as their numbers of rows.
RenderedRowCounts ==
    <<Len(rows)>> \o [k \in 1..comp_i |-> Len(comparison_tables[k][3])]

RECURSIVE SumPages(_, _)
SumPages(counts, k) ==
    IF k = 0 THEN 0 ELSE SumPages(counts, k - 1) + table_pages(counts[k], table_bottom_limit)

\* The pages laid out are those the row counts of the sections give, and the
\* pages of n rows are at least those of any smaller number of rows and at most
\* those of n + 1 rows, for every limit compared.
PagesGrowWithRows ==
    /\ Len(pages) = SumPages(RenderedRowCounts, Len(RenderedRowCounts))
    /\ \A k \in 1..Len(RenderedRowCounts) : \A l \in Limits :
          LET n == RenderedRowCounts[k]
          IN  /\ \A m \in 0..n : table_pages(m, l) <= table_pages(n, l)
              /\ table_pages(n, l) <= table_pages(n + 1, l)

\* C12 as stated: more rows never give fewer pages, and a lower bottom limit
\* never gives fewer pages either.
C12_LowerLimitNeverFewerPages ==
    pc = "comparisons" =>
        /\ PagesGrowWithRows
        /\ \A k \in 1..Len(RenderedRowCounts) : \A l1, l2 \in Limits :
              l1 <= l2 =>
                 table_pages(RenderedRowCounts[k], l1) >= table_pages(RenderedRowCounts[k], l2)

\* C12, amended: with everything else fixed, more rows never give fewer pages
\* (the page count is non-decreasing in the number of rows N >= 0), and a lower
\* bottom limit, which lets more rows fit on a page, never gives more pages.
C12_PageCountMonotone ==
    pc = "comparisons" =>
        /\ PagesGrowWithRows
        /\ \A k \in 1..Len(RenderedRowCounts) : \A l1, l2 \in Limits :
              l1 <= l2 =>
                 table_pages(RenderedRowCounts[k], l1) <= table_pages(RenderedRowCounts[k], l2)

\* A table of 41 rows has been laid out on 2 pages; one limit lower it takes 1.
C12_Witness ==
    /\ pc = "comparisons" /\ comp_i = 0
    /\ Len(rows) = 41 /\ Len(pages) = 2
    /\ table_pages(41, table_bottom_limit - 12) = 1

-----------------------------------------------------------------------------
(* Inline emphasis markers in the classified content *)

\* sub in s
Contains(s, sub) ==
    \E i \in 1..(Len(s) - Len(sub) + 1) : SubSeq(s, i, i + Len(sub) - 1) = sub

Markers == {"**", "__", Backquote, "***"}

\* C13: the content of every block the classifier produces holds none of the
\* inline emphasis markers, also when the removal of one marker brings the
\* characters of another one together.
C13_NoMarkerLeft ==
    pc = "classified" =>
        \A i \in 1..Len(blocks) : \A mk \in Markers : ~Contains(blocks[i][2], mk)

-----------------------------------------------------------------------------
(* Table continuation pages *)

\* The positions, among the text calls of a canvas, of those of a font size.
IndexesOfSize(lines, size) == {k \in 1..Len(Ops(lines)) : Ops(lines)[k].tf = Tf(size)}

\* The canvas carries the "(continued)" title of some section rendered so far.
IsContinuationPage(lines) ==
    \E k \in IndexesOfSize(lines, 13) : \E t \in 0..comp_i :
        Ops(lines)[k].tj = Tj(TitleOf(t) \o " (continued)")

C14_State ==
    pc \in {"rows", "comparisons"} =>
        \A pg \in 1..Len(pages) :
            LET lines == pages[pg]
                T == IndexesOfSize(lines, 13)
                H == IndexesOfSize(lines, 8)
                D == IndexesOfSize(lines, 7)
            IN  /\ \E t \in 0..comp_i : PageOfSection(lines, t)
                /\ \A a \in T : \A h \in H : a < h
                /\ \A h \in H : \A d \in D : h < d
                /\ \A a \in T : \A d \in D : a < d
                /\ IsContinuationPage(lines) =>
                      /\ T = {1}
                      /\ Ops(lines)[1].td = "30 580 Td"
                      /\ H = 2..(Cardinality(H) + 1)
                      /\ \A h \in H :
                            Ops(lines)[h].td = ToString(x_positions(h - 2) + 2) \o " 560 Td"
                      /\ D # {}

C14_Step ==
    (pc = "rows" /\ Len(pages') # Len(pages)) =>
        /\ row_i <= Len(table_rows)
        /\ row_i' = row_i + 1
        /\ Len(pages') = Len(pages) + 1
        /\ \A pg \in 1..Len(pages) : pages'[pg] = pages[pg]
        /\ IsContinuationPage(pages'[Len(pages')])
        /\ LET cells == OpsOfSize(pages'[Len(pages')], 7)
           IN  /\ Len(cells) = Len(table_rows[row_i])
               /\ \A c \in 1..Len(cells) : cells[c].tj = Tj(table_rows[row_i][c])

\* C14: every page of a table section carries the section's header row exactly
\* once, after its title and before its data rows; on a continuation page the
\* title suffixed "(continued)" is the first thing drawn and the header row
\* the next, and the page holds at least one data row: the row loop opens a
\* continuation page only in a step that has a row left and draws that row
\* on the new page.
C14_ContinuationPages == []C14_State /\ [][C14_Step]_vars

\* A table of 84 rows is rendered: its second continuation page holds one row.
C14_Witness ==
    /\ pc = "comparisons" /\ comp_i = 0
    /\ Len(rows) = 84 /\ Len(pages) = 3
    /\ IsContinuationPage(pages[3])
    /\ Len(OpsOfSize(pages[3], 7)) = Len(headers)

-----------------------------------------------------------------------------
(* The prefix of the lines of a bullet *)

\* The last text call of a canvas.
LastOp(lines) == Ops(lines)[Len(Ops(lines))]

\* The text calls of the narrative pages whose text starts with the bullet glyph.
GlyphLines ==
    SelectSeq(NarrativeDrawn,
              LAMBDA d : startswith(d[2], "(" \o BulletGlyph \o " "))

BulletBlocks == SelectSeq(blocks, LAMBDA b : b[1] = "bullet")

C15_State ==
    (pc = "blocks" /\ block_i > Len(blocks)) => Len(GlyphLines) = Len(BulletBlocks)

C15_Step ==
    (pc = "lines" /\ idx_line' = idx_line + 1 /\ blocks[block_i][1] = "bullet") =>
        /\ LastOp(pages'[page']).tf = Tf(9)
        /\ LastOp(pages'[page']).tj =
              Tj((IF idx_line = 0 THEN BulletGlyph \o " " ELSE "  ")
                    \o wrapped[idx_line + 1])
        /\ Len(pages') > Len(pages) =>
              /\ page' = Len(pages')
              /\ Len(Ops(pages'[page'])) = 2
              /\ Ops(pages'[page'])[1].tj = Tj("Executive Analysis (continued)")

\* C15: the line drawn for the first wrapped line of a bullet starts with the
\* bullet glyph and a space, the line drawn for every later wrapped line of the
\* block with two spaces, also when the line is the first one of a continuation
\* page; so the narrative pages hold one glyph line per bullet block.
C15_BulletPrefix == []C15_State /\ [][C15_Step]_vars

\* A later line of a bullet has just been drawn as the first line of a
\* continuation page.
C15_Witness ==
    /\ pc = "lines"
    /\ blocks[block_i][1] = "bullet"
    /\ idx_line >= 2
    /\ Len(Ops(pages[page])) = 2
    /\ Ops(pages[page])[1].tj = Tj("Executive Analysis (continued)")
    /\ startswith(Ops(pages[page])[2].tj, "(  ")

-----------------------------------------------------------------------------
(* Spacer blocks *)

OnlySpacers == \A i \in 1..Len(blocks) : blocks[i][1] = "space"

C16_Step ==
    (pc = "blocks" /\ block_i <= Len(blocks) /\ blocks[block_i][1] = "space") =>
        /\ y' = y - 6
        /\ block_i' = block_i + 1
        /\ pages' = pages /\ page' = page
        /\ pc' = "blocks"
        /\ UNCHANGED <<inputs, tableVars, blocks, wrapped, idx_line, asmVars,
                       out, file, result>>

C16_State ==
    (pc = "blocks" /\ block_i > Len(blocks)) =>
        /\ OnlySpacers =>
              /\ Cardinality(NarrativePages) = 1
              /\ NarrativePages = {Len(pages)}
              /\ Len(Ops(pages[Len(pages)])) = 1
              /\ Ops(pages[Len(pages)])[1].tj = Tj("Executive Analysis")
              /\ y = 560 - 6 * Len(blocks)
        /\ ~OnlySpacers => Len(Ops(pages[Len(pages)])) >= 2

\* C16: a step over a Spacer block lowers y by 6 and moves to the next block;
\* it leaves the page list, every canvas, the current page and everything else
\* as they are, whatever y is.  So for a text of blank lines only, or empty,
\* the narrative is one page that holds the "Executive Analysis" title alone,
\* and otherwise the last page holds a line below its title: blank lines at
\* the end add no page.
C16_SpacerOnlyMovesCursor == []C16_State /\ [][C16_Step]_vars

\* A narrative of blank lines only has been laid out, the cursor ending below
\* the bottom limit.
C16_Witness ==
    /\ pc = "blocks" /\ block_i > Len(blocks)
    /\ blocks # <<>> /\ OnlySpacers
    /\ y < 30
    /\ Cardinality(NarrativePages) = 1

-----------------------------------------------------------------------------
(* The heights at which lines and rows are drawn *)

\* The y of a position line "x y Td"; -1 when the line is not of that form.
YOfTd(td) ==
    LET spaces == {i \in 1..Len(td) : Char(td, i) = " "}
    IN  IF Cardinality(spaces) # 2 \/ ~endswith(td, " Td") THEN -1
        ELSE LET sp == CHOOSE i \in spaces : \A j \in spaces : i <= j
             IN  ParseNat(SubSeq(td, sp + 1, Len(td) - 3))

\* The position line and the font line of the last text call of a canvas.
LastTd(lines) == lines[Len(lines) - 2]

LastTf(lines) == lines[Len(lines) - 3]

\* The first text call of the canvas is a section title suffixed "(continued)".
StartsContinued(lines) ==
    /\ Len(lines) >= 5
    /\ lines[2] = Tf(13)
    /\ endswith(lines[4], " \\(continued\\)) Tj")

C17_State ==
    /\ \A pg \in 1..Len(pages) :
          LET lines == pages[pg]
              first == ~StartsContinued(lines)
              narrative == Len(lines) > 0 /\ lines[2] = Tf(14)
          IN  \A k \in 1..(Len(lines) \div 5) :
                 LET tf == lines[5 * k - 3]
                     td == lines[5 * k - 2]
                     at == YOfTd(td)
                 IN  /\ tf = Tf(7) =>
                           /\ 40 <= at /\ at <= 546
                           /\ first => at <= 511
                     /\ (narrative /\ k > 1) =>
                           /\ 30 <= at /\ at <= 560
                           /\ td = "30 " \o ToString(at) \o " Td"
    /\ (pc = "lines" /\ idx_line = 0) => y >= 30

C17_Step ==
    /\ Len(pages') <= Len(pages) + 1
    /\ (pc = "rows" /\ row_i' = row_i + 1) =>
          LET at == YOfTd(LastTd(pages'[page']))
          IN  /\ LastTf(pages'[page']) = Tf(7)
              /\ IF Len(pages') > Len(pages)
                 THEN y_local < 40 /\ at = 546 /\ y_local' = 546 - 12
                 ELSE y_local >= 40 /\ at = y_local /\ y_local' = y_local - 12
    /\ (pc = "blocks" /\ pc' = "lines") =>
          IF Len(pages') > Len(pages) THEN y < 30 /\ y' = 560
          ELSE y >= 30 /\ y' = y
    /\ (pc = "lines" /\ idx_line' = idx_line + 1) =>
          LET at == YOfTd(LastTd(pages'[page']))
          IN  IF Len(pages') > Len(pages)
              THEN y < 30 /\ idx_line > 0 /\ at = 560
              ELSE y >= 30 /\ at = y

\* C17: in every state, every table data cell on the canvases stands at a y
\* from 40 to 546, up to 511 on the first page of its section, and every line
\* of the narrative at x 30 and a y from 30 to 560; every step opens one page
\* at most; a row or a line is drawn at the cursor when the cursor is at or
\* above the bottom limit, and otherwise at the top of the page the step
\* opens (546 for a row, 560 for a line); the first line of a block, whose
\* block may have opened a page, never opens a second one.
C17_CheckThenDraw == []C17_State /\ [][C17_Step]_vars

\* The third line or a later one of a heading has just been drawn at the top
\* of the continuation page it opened.
C17_Witness ==
    /\ pc = "lines"
    /\ blocks[block_i][1] = "heading"
    /\ idx_line >= 2
    /\ Len(Ops(pages[page])) = 2
    /\ LastTd(pages[page]) = "30 560 Td"
    /\ y = 560 - 12

====
